---- MODULE Spec2Model ----
(***************************************************************************)
(* Model of the audio file batch renamer                                   *)
(* (src/audio-file-renamer/rename_audio_files_with_args.py).               *)
(*                                                                         *)
(* File names are sequences of one-character strings, so that suffix(),    *)
(* lower(), startswith(), the 03d formatting and the sort order are        *)
(* computed the way the code computes them.  The directory is a function   *)
(* from the names present to [kind, orig]; orig is the name the file had   *)
(* when the model started, i.e. the identity of its content.               *)
(*                                                                         *)
(* os.rename and pathlib are modelled with their POSIX behaviour: renaming *)
(* onto an existing regular file replaces it silently, renaming onto a     *)
(* directory raises, Path ordering is code point order.  Any rename may    *)
(* also fail for a reason of the environment (permission denied).          *)
(***************************************************************************)
EXTENDS Integers, Sequences, FiniteSets, TLC

(* ------------------------------ bounds -------------------------------- *)

\* largest number of entries in the scanned directory at the start
MaxFiles == 3
\* number of invocations of rename_files in one behaviour
MaxRuns == 2

(* --------------------------- characters ------------------------------- *)

\* ord(): the code point of each character that occurs in a name
Ord ==
  "-" :> 45 @@ "." :> 46 @@ "0" :> 48 @@ "1" :> 49 @@ "2" :> 50 @@ "3" :> 51 @@
  "4" :> 52 @@ "5" :> 53 @@ "6" :> 54 @@ "7" :> 55 @@ "8" :> 56 @@ "9" :> 57 @@
  "A" :> 65 @@ "B" :> 66 @@ "C" :> 67 @@ "D" :> 68 @@ "E" :> 69 @@ "F" :> 70 @@
  "G" :> 71 @@ "H" :> 72 @@ "I" :> 73 @@ "J" :> 74 @@ "K" :> 75 @@ "L" :> 76 @@
  "M" :> 77 @@ "N" :> 78 @@ "O" :> 79 @@ "P" :> 80 @@ "Q" :> 81 @@ "R" :> 82 @@
  "S" :> 83 @@ "T" :> 84 @@ "U" :> 85 @@ "V" :> 86 @@ "W" :> 87 @@ "X" :> 88 @@
  "Y" :> 89 @@ "Z" :> 90 @@ "_" :> 95 @@ "a" :> 97 @@ "b" :> 98 @@ "c" :> 99 @@
  "d" :> 100 @@ "e" :> 101 @@ "f" :> 102 @@ "g" :> 103 @@ "h" :> 104 @@
  "i" :> 105 @@ "j" :> 106 @@ "k" :> 107 @@ "l" :> 108 @@ "m" :> 109 @@
  "n" :> 110 @@ "o" :> 111 @@ "p" :> 112 @@ "q" :> 113 @@ "r" :> 114 @@
  "s" :> 115 @@ "t" :> 116 @@ "u" :> 117 @@ "v" :> 118 @@ "w" :> 119 @@
  "x" :> 120 @@ "y" :> 121 @@ "z" :> 122

\* chr(): the character of a code point
Chr(n) == CHOOSE c \in DOMAIN Ord : Ord[c] = n

\* str.lower() on one character
LowerChar(c) == IF Ord[c] >= 65 /\ Ord[c] <= 90 THEN Chr(Ord[c] + 32) ELSE c

\* str.lower()
Lower(s) == [k \in 1..Len(s) |-> LowerChar(s[k])]

\* str.startswith()
StartsWith(s, pre) == Len(s) >= Len(pre) /\ SubSeq(s, 1, Len(pre)) = pre

\* str.__lt__: lexicographic order by code point
StrLess(a, b) ==
  \E k \in 1..(Len(b)) :
     /\ \A j \in 1..(k - 1) : j <= Len(a) /\ a[j] = b[j]
     /\ \/ Len(a) = k - 1
        \/ Len(a) >= k /\ Ord[a[k]] < Ord[b[k]]

(* ------------------------ names and constants ------------------------- *)

ExtWav  == <<".", "w", "a", "v">>
ExtMp3  == <<".", "m", "p", "3">>
ExtFlac == <<".", "f", "l", "a", "c">>
ExtOgg  == <<".", "o", "g", "g">>
ExtM4a  == <<".", "m", "4", "a">>

AUDIO_EXTENSIONS == {ExtWav, ExtMp3, ExtFlac, ExtOgg, ExtM4a}
LOG_FILE == <<"r", "e", "n", "a", "m", "e", "_", "l", "o", "g", ".", "t", "x", "t">>
MAPPING_FILE ==
  <<"r", "e", "n", "a", "m", "e", "_", "m", "a", "p", "p", "i", "n", "g", ".", "c", "s", "v">>
\* the header row written to the mapping file
HeaderRow == << <<"o", "l", "d", "_", "n", "a", "m", "e">>,
                <<"n", "e", "w", "_", "n", "a", "m", "e">> >>

\* the names a scanned directory is drawn from
N_a_wav     == <<"a", ".", "w", "a", "v">>
N_b_mp3     == <<"b", ".", "m", "p", "3">>
N_B_WAV     == <<"B", ".", "W", "A", "V">>
N_notes_txt == <<"n", "o", "t", "e", "s", ".", "t", "x", "t">>
N_s_001_wav == <<"s", "_", "0", "0", "1", ".", "w", "a", "v">>
N_s_x_wav   == <<"s", "_", "x", ".", "w", "a", "v">>
N_dot_wav   == <<".", "w", "a", "v">>
N_t_001_wav == <<"t", "_", "0", "0", "1", ".", "w", "a", "v">>
N_sa_ogg    == <<"s", "a", ".", "o", "g", "g">>
\* a sub-directory whose name looks like an audio file
N_s_002_wav == <<"s", "_", "0", "0", "2", ".", "w", "a", "v">>

FilePool == {N_a_wav, N_b_mp3, N_B_WAV, N_notes_txt, N_s_001_wav, N_s_x_wav,
             N_dot_wav, N_t_001_wav, N_sa_ogg}
DirPool  == {N_s_002_wav}
Pool     == FilePool \cup DirPool

Prefixes     == {<<"s">>, <<"t">>}
StartIndices == {1, 999}

(* ------------------------------ state --------------------------------- *)

VARIABLES
  pathKind,      \* what input_dir names: "missing", "file" or "dir"
  cwdIsInput,    \* input_dir is the working directory (where LOG_FILE goes)
  fs,            \* the entries of input_dir: name -> [kind, orig]
  prefix,        \* argument prefix
  start_index,   \* argument start_index
  apply,         \* argument apply
  pc,            \* "start", "loop", "done" (returned), "crashed" (raised)
  exc,           \* the exception that ended the run, or "none"
  audio_files,   \* local audio_files
  i,             \* position of the for loop in audio_files
  current_index, \* local current_index
  mapping,       \* rows written to MAPPING_FILE in this run
  logrecs,       \* messages passed to log() in this run
  entries,       \* history: one record per loop iteration completed
  fs0,           \* history: fs when this run started
  run,           \* number of this run
  prev           \* history: summary of the previous run

vars == <<pathKind, cwdIsInput, fs, prefix, start_index, apply, pc, exc,
          audio_files, i, current_index, mapping, logrecs, entries, fs0,
          run, prev>>

(* ------------------------- pure functions ----------------------------- *)

\* Path.suffix: the name from its last dot on, unless that dot is the first
\* or the last character
Suffix(name) ==
  LET dots == {k \in 1..Len(name) : name[k] = "."}
  IN  IF dots = {} THEN <<>>
      ELSE LET j == CHOOSE k \in dots : \A m \in dots : m <= k
           IN  IF j > 1 /\ j < Len(name) THEN SubSeq(name, j, Len(name))
               ELSE <<>>

\* the decimal digits of a natural number
RECURSIVE Digits(_)
Digits(n) ==
  IF n < 10 THEN <<Chr(48 + n)>>
  ELSE Digits(n \div 10) \o <<Chr(48 + (n % 10))>>

\* mutant: the index is padded to a width of 2
Format03d_Width2(index) ==
  LET sign == IF index < 0 THEN <<"-">> ELSE <<>>
      digs == Digits(IF index < 0 THEN 0 - index ELSE index)
      fill == 2 - Len(sign) - Len(digs)
  IN  sign \o [k \in 1..(IF fill > 0 THEN fill ELSE 0) |-> "0"] \o digs

\* format(index, "03d"): sign, then zeros up to a width of 3, then digits
Format03d(index) ==
  LET sign == IF index < 0 THEN <<"-">> ELSE <<>>
      digs == Digits(IF index < 0 THEN 0 - index ELSE index)
      fill == 3 - Len(sign) - Len(digs)
  IN  sign \o [k \in 1..(IF fill > 0 THEN fill ELSE 0) |-> "0"] \o digs

\* sorted(): ascending by Path.__lt__, which compares the names
RECURSIVE Sorted(_)
Sorted(S) ==
  IF S = {} THEN <<>>
  ELSE LET m == CHOOSE x \in S : \A y \in S : x = y \/ StrLess(x, y)
       IN  <<m>> \o Sorted(S \ {m})

\* mutant: the filter compares the suffix as it is written
IsAudioName_CaseSensitive(name) == Suffix(name) \in AUDIO_EXTENSIONS

\* the candidate filter of get_audio_files: f.suffix.lower() in AUDIO_EXTENSIONS
IsAudioName(name) == Lower(Suffix(name)) \in AUDIO_EXTENSIONS

\* get_audio_files(directory): the exception it raises, or the sorted list
get_audio_files(kind, dir) ==
  IF kind = "missing" THEN [err |-> "FileNotFoundError", files |-> <<>>]
  ELSE IF kind = "file" THEN [err |-> "NotADirectoryError", files |-> <<>>]
  ELSE LET files == {n \in DOMAIN dir : dir[n].kind = "file"}
           audio == {n \in files : IsAudioName(n)}
       IN  [err |-> "none", files |-> Sorted(audio)]

\* mutant: the check also asks for a digit after the underscore
is_already_renamed_Strict(name, pre) ==
  /\ StartsWith(name, pre \o <<"_">>)
  /\ Len(name) > Len(pre) + 1
  /\ Ord[name[Len(pre) + 2]] >= 48 /\ Ord[name[Len(pre) + 2]] <= 57

\* is_already_renamed(file_path, prefix)
is_already_renamed(name, pre) == StartsWith(name, pre \o <<"_">>)

\* mutant: the separator between prefix and index is left out
build_new_name_NoSeparator(pre, index, extension) ==
  pre \o Format03d(index) \o extension

\* build_new_name(prefix, index, extension)
build_new_name(pre, index, extension) ==
  pre \o <<"_">> \o Format03d(index) \o extension

(* --------------------------- file system ------------------------------ *)

NoFiles == [n \in {} |-> [kind |-> "file", orig |-> n]]

\* open(name, "a") or open(name, "w") in the working directory: the file is
\* created when it is not there; it is in input_dir only when that is the
\* working directory
Opened(dir, inCwd, name) ==
  IF inCwd /\ name \notin DOMAIN dir
  THEN dir @@ (name :> [kind |-> "file", orig |-> name])
  ELSE dir

\* os.rename(src, dst): the exception it raises for this directory, or "none"
OsRenameError(dir, src, dst) ==
  IF src \notin DOMAIN dir THEN "FileNotFoundError"
  ELSE IF src /= dst /\ dst \in DOMAIN dir /\ dir[dst].kind = "dir"
       THEN "IsADirectoryError"
       ELSE "none"

\* os.rename(src, dst) when it succeeds: a regular file at dst is replaced
OsRename(dir, src, dst) ==
  [n \in (DOMAIN dir \ {src}) \cup {dst} |-> IF n = dst THEN dir[src] ELSE dir[n]]

\* log(message): the record appended
LogRec(tag, old, new) == [tag |-> tag, old |-> old, new |-> new]

(* ------------------------------ Init ---------------------------------- *)

\* the directories a run may start from: at most MaxFiles entries of Pool
Dirs ==
  { [n \in S |-> [kind |-> IF n \in DirPool THEN "dir" ELSE "file", orig |-> n]] :
      S \in {T \in SUBSET Pool : Cardinality(T) <= MaxFiles} }

NoPrev == [pc |-> "none", apply |-> FALSE, entries |-> <<>>, mapping |-> <<>>,
           fs0 |-> NoFiles]

Init ==
  /\ pathKind \in {"missing", "file", "dir"}
  /\ cwdIsInput \in (IF pathKind = "dir" THEN BOOLEAN ELSE {FALSE})
  /\ fs \in (IF pathKind = "dir" THEN Dirs ELSE {NoFiles})
  /\ prefix \in Prefixes
  /\ start_index \in StartIndices
  /\ apply \in BOOLEAN
  /\ pc = "start"
  /\ exc = "none"
  /\ audio_files = <<>>
  /\ i = 1
  /\ current_index = start_index
  /\ mapping = <<>>
  /\ logrecs = <<>>
  /\ entries = <<>>
  /\ fs0 = fs
  /\ run = 1
  /\ prev = NoPrev

(* ----------------------------- actions -------------------------------- *)

\* rename_files, lines 76-80: the scan raises FileNotFoundError, which is
\* caught, logged, and ends the run
DirectoryNotFound ==
  /\ pc = "start"
  /\ get_audio_files(pathKind, fs).err = "FileNotFoundError"
  /\ logrecs' = Append(logrecs, LogRec("NOTFOUND", <<>>, <<>>))
  /\ fs' = Opened(fs, cwdIsInput, LOG_FILE)
  /\ exc' = "FileNotFoundError"
  /\ pc' = "done"
  /\ UNCHANGED <<pathKind, cwdIsInput, prefix, start_index, apply, audio_files,
                 i, current_index, mapping, entries, fs0, run, prev>>

\* rename_files, lines 76-78: the scan raises anything else; nothing catches it
ScanRaises ==
  /\ pc = "start"
  /\ get_audio_files(pathKind, fs).err \notin {"none", "FileNotFoundError"}
  /\ exc' = get_audio_files(pathKind, fs).err
  /\ pc' = "crashed"
  /\ UNCHANGED <<pathKind, cwdIsInput, fs, prefix, start_index, apply,
                 audio_files, i, current_index, mapping, logrecs, entries, fs0,
                 run, prev>>

\* rename_files, lines 76-84: the scan finds no audio file
NoAudioFiles ==
  /\ pc = "start"
  /\ get_audio_files(pathKind, fs).err = "none"
  /\ get_audio_files(pathKind, fs).files = <<>>
  /\ logrecs' = Append(logrecs, LogRec("NOAUDIO", <<>>, <<>>))
  /\ fs' = Opened(fs, cwdIsInput, LOG_FILE)
  /\ pc' = "done"
  /\ UNCHANGED <<pathKind, cwdIsInput, prefix, start_index, apply, exc,
                 audio_files, i, current_index, mapping, entries, fs0, run, prev>>

\* mutant: the mapping file is opened but the header row is not written
BeginLoop_NoHeader ==
  /\ pc = "start"
  /\ get_audio_files(pathKind, fs).err = "none"
  /\ get_audio_files(pathKind, fs).files /= <<>>
  /\ audio_files' = get_audio_files(pathKind, fs).files
  /\ logrecs' = Append(logrecs, LogRec("FOUND", <<>>, <<>>))
  /\ current_index' = start_index
  /\ mapping' = <<>>
  /\ fs' = Opened(Opened(fs, cwdIsInput, LOG_FILE), cwdIsInput, MAPPING_FILE)
  /\ i' = 1
  /\ pc' = "loop"
  /\ UNCHANGED <<pathKind, cwdIsInput, prefix, start_index, apply, exc, entries,
                 fs0, run, prev>>

\* rename_files, lines 76-93: the scan, the "Found" message, the running
\* index, the mapping file opened with its header
BeginLoop ==
  /\ pc = "start"
  /\ get_audio_files(pathKind, fs).err = "none"
  /\ get_audio_files(pathKind, fs).files /= <<>>
  /\ audio_files' = get_audio_files(pathKind, fs).files
  /\ logrecs' = Append(logrecs, LogRec("FOUND", <<>>, <<>>))
  /\ current_index' = start_index
  /\ mapping' = <<HeaderRow>>
  /\ fs' = Opened(Opened(fs, cwdIsInput, LOG_FILE), cwdIsInput, MAPPING_FILE)
  /\ i' = 1
  /\ pc' = "loop"
  /\ UNCHANGED <<pathKind, cwdIsInput, prefix, start_index, apply, exc, entries,
                 fs0, run, prev>>

\* the record of one loop iteration
Entry(old, decision, target, index, outcome) ==
  [old |-> old, decision |-> decision, target |-> target, index |-> index,
   outcome |-> outcome]

\* mutant: the name is built from the start index, not the running index
NewName_StaleIndex(k) ==
  build_new_name(prefix, start_index, Lower(Suffix(audio_files[k])))

\* the target name computed at lines 102-103 for the file at position k
NewName(k) ==
  build_new_name(prefix, current_index, Lower(Suffix(audio_files[k])))

\* mutant: a skipped file advances the running index
SkipEntry_ConsumesIndex ==
  /\ pc = "loop"
  /\ i <= Len(audio_files)
  /\ is_already_renamed(audio_files[i], prefix)
  /\ logrecs' = Append(logrecs, LogRec("SKIPPED", audio_files[i], <<>>))
  /\ fs' = Opened(fs, cwdIsInput, LOG_FILE)
  /\ entries' = Append(entries,
                   Entry(audio_files[i], "skip", <<>>, current_index, "skipped"))
  /\ current_index' = current_index + 1
  /\ i' = i + 1
  /\ UNCHANGED <<pathKind, cwdIsInput, prefix, start_index, apply, pc, exc,
                 audio_files, mapping, fs0, run, prev>>

\* one iteration, lines 95-100: the file is already renamed
SkipEntry ==
  /\ pc = "loop"
  /\ i <= Len(audio_files)
  /\ is_already_renamed(audio_files[i], prefix)
  /\ logrecs' = Append(logrecs, LogRec("SKIPPED", audio_files[i], <<>>))
  /\ fs' = Opened(fs, cwdIsInput, LOG_FILE)
  /\ entries' = Append(entries,
                   Entry(audio_files[i], "skip", <<>>, current_index, "skipped"))
  /\ i' = i + 1
  /\ UNCHANGED <<pathKind, cwdIsInput, prefix, start_index, apply, pc, exc,
                 audio_files, current_index, mapping, fs0, run, prev>>

\* mutant: the dry run renames the file all the same
PreviewEntry_Renames ==
  /\ pc = "loop"
  /\ i <= Len(audio_files)
  /\ ~is_already_renamed(audio_files[i], prefix)
  /\ ~apply
  /\ OsRenameError(fs, audio_files[i], NewName(i)) = "none"
  /\ logrecs' = Append(logrecs, LogRec("DRYRUN", audio_files[i], NewName(i)))
  /\ fs' = Opened(OsRename(fs, audio_files[i], NewName(i)), cwdIsInput, LOG_FILE)
  /\ mapping' = Append(mapping, <<audio_files[i], NewName(i)>>)
  /\ entries' = Append(entries,
         Entry(audio_files[i], "rename", NewName(i), current_index, "previewed"))
  /\ current_index' = current_index + 1
  /\ i' = i + 1
  /\ UNCHANGED <<pathKind, cwdIsInput, prefix, start_index, apply, pc, exc,
                 audio_files, fs0, run, prev>>

\* mutant: the dry run does not advance the running index
PreviewEntry_NoAdvance ==
  /\ pc = "loop"
  /\ i <= Len(audio_files)
  /\ ~is_already_renamed(audio_files[i], prefix)
  /\ ~apply
  /\ logrecs' = Append(logrecs, LogRec("DRYRUN", audio_files[i], NewName(i)))
  /\ fs' = Opened(fs, cwdIsInput, LOG_FILE)
  /\ mapping' = Append(mapping, <<audio_files[i], NewName(i)>>)
  /\ entries' = Append(entries,
         Entry(audio_files[i], "rename", NewName(i), current_index, "previewed"))
  /\ i' = i + 1
  /\ UNCHANGED <<pathKind, cwdIsInput, prefix, start_index, apply, pc, exc,
                 audio_files, current_index, fs0, run, prev>>

\* one iteration, lines 95-115 with apply false
PreviewEntry ==
  /\ pc = "loop"
  /\ i <= Len(audio_files)
  /\ ~is_already_renamed(audio_files[i], prefix)
  /\ ~apply
  /\ logrecs' = Append(logrecs, LogRec("DRYRUN", audio_files[i], NewName(i)))
  /\ fs' = Opened(fs, cwdIsInput, LOG_FILE)
  /\ mapping' = Append(mapping, <<audio_files[i], NewName(i)>>)
  /\ entries' = Append(entries,
         Entry(audio_files[i], "rename", NewName(i), current_index, "previewed"))
  /\ current_index' = current_index + 1
  /\ i' = i + 1
  /\ UNCHANGED <<pathKind, cwdIsInput, prefix, start_index, apply, pc, exc,
                 audio_files, fs0, run, prev>>

\* one iteration, lines 95-115 with apply true and os.rename succeeding
ApplyEntry ==
  /\ pc = "loop"
  /\ i <= Len(audio_files)
  /\ ~is_already_renamed(audio_files[i], prefix)
  /\ apply
  /\ OsRenameError(fs, audio_files[i], NewName(i)) = "none"
  /\ fs' = Opened(OsRename(fs, audio_files[i], NewName(i)), cwdIsInput, LOG_FILE)
  /\ logrecs' = Append(logrecs, LogRec("RENAMED", audio_files[i], NewName(i)))
  /\ mapping' = Append(mapping, <<audio_files[i], NewName(i)>>)
  /\ entries' = Append(entries,
         Entry(audio_files[i], "rename", NewName(i), current_index, "applied"))
  /\ current_index' = current_index + 1
  /\ i' = i + 1
  /\ UNCHANGED <<pathKind, cwdIsInput, prefix, start_index, apply, pc, exc,
                 audio_files, fs0, run, prev>>

\* one iteration, lines 95-107 with apply true and os.rename raising: the
\* exception leaves the loop and rename_files; no handler is in the way
ApplyEntryRaises ==
  /\ pc = "loop"
  /\ i <= Len(audio_files)
  /\ ~is_already_renamed(audio_files[i], prefix)
  /\ apply
  /\ \E e \in {OsRenameError(fs, audio_files[i], NewName(i)), "PermissionError"} :
        /\ e /= "none"
        /\ exc' = e
  /\ pc' = "crashed"
  /\ UNCHANGED <<pathKind, cwdIsInput, fs, prefix, start_index, apply,
                 audio_files, i, current_index, mapping, logrecs, entries, fs0,
                 run, prev>>

\* line 117: the loop is over
Finish ==
  /\ pc = "loop"
  /\ i > Len(audio_files)
  /\ logrecs' = Append(logrecs, LogRec("COMPLETED", <<>>, <<>>))
  /\ fs' = Opened(fs, cwdIsInput, LOG_FILE)
  /\ pc' = "done"
  /\ UNCHANGED <<pathKind, cwdIsInput, prefix, start_index, apply, exc,
                 audio_files, i, current_index, mapping, entries, fs0, run, prev>>

\* lines 160-168: the script is run again on the directory as the last run
\* left it, with the same input, prefix and start index, in either mode
Rerun ==
  /\ pc \in {"done", "crashed"}
  /\ run < MaxRuns
  /\ apply' \in BOOLEAN
  /\ prev' = [pc |-> pc, apply |-> apply, entries |-> entries,
              mapping |-> mapping, fs0 |-> fs0]
  /\ run' = run + 1
  /\ pc' = "start"
  /\ exc' = "none"
  /\ audio_files' = <<>>
  /\ i' = 1
  /\ current_index' = start_index
  /\ mapping' = <<>>
  /\ logrecs' = <<>>
  /\ entries' = <<>>
  /\ fs0' = fs
  /\ UNCHANGED <<pathKind, cwdIsInput, fs, prefix, start_index>>

Next ==
  \/ DirectoryNotFound
  \/ ScanRaises
  \/ NoAudioFiles
  \/ BeginLoop
  \/ SkipEntry
  \/ PreviewEntry
  \/ ApplyEntry
  \/ ApplyEntryRaises
  \/ Finish
  \/ Rerun

Spec == Init /\ [][Next]_vars

(* ====================== properties of the renamer ===================== *)

\* the loop is about to process the candidate at position i
AtEntry == pc = "loop" /\ i <= Len(audio_files)

\* the candidate at position k gets a rename decision under the prefix
WillRename(k) == ~is_already_renamed(audio_files[k], prefix)

\* name n is still to be renamed away by a later iteration of this run
ScheduledLater(n) ==
  \E k \in (i + 1)..Len(audio_files) : audio_files[k] = n /\ WillRename(k)

\* the target of the entry at position i is an existing regular file that
\* this run does not rename away
TargetCollides ==
  /\ AtEntry /\ apply /\ WillRename(i)
  /\ NewName(i) /= audio_files[i]
  /\ NewName(i) \in DOMAIN fs
  /\ fs[NewName(i)].kind = "file"
  /\ ~ScheduledLater(NewName(i))

\* the entry just appended to the run record has this outcome
LastOutcome(o) ==
  /\ Len(entries') = Len(entries) + 1
  /\ entries'[Len(entries')].outcome = o

\* C1: in apply mode, an entry whose target name is an existing file that is
\* not scheduled to be renamed away ends as failed: NameCollision, the
\* existing file stays in place, and the run goes on with the index advanced
C1_CollisionIsPerEntryFailure ==
  [][TargetCollides =>
       /\ LastOutcome("failed")
       /\ NewName(i) \in DOMAIN fs' /\ fs'[NewName(i)] = fs[NewName(i)]
       /\ pc' = "loop" /\ i' = i + 1
       /\ current_index' = current_index + 1]_vars

\* C2: in apply mode, an entry whose os.rename fails is recorded as failed,
\* the running index still advances by 1 and the loop goes on to the next
\* candidate
C2_FailedRenameDoesNotAbort ==
  [][(AtEntry /\ apply /\ WillRename(i) /\ exc' /= exc) =>
       /\ LastOutcome("failed")
       /\ pc' = "loop" /\ i' = i + 1
       /\ current_index' = current_index + 1]_vars

\* the entries of the run record with a rename decision, in processing order
RenameEntries(es) == SelectSeq(es, LAMBDA e : e.decision = "rename")

\* the names of the directory other than the two files the run itself writes
OwnFiles == {LOG_FILE, MAPPING_FILE}

\* C3: when an apply run that ended without error is followed by another
\* apply run with the same prefix and start index, the second run marks
\* every candidate skip-already-named, renames nothing and writes no row
C3_SecondApplyRunSkipsAll ==
  (run >= 2 /\ prev.pc = "done" /\ prev.apply /\ apply) =>
     /\ \A k \in 1..Len(audio_files) : is_already_renamed(audio_files[k], prefix)
     /\ \A k \in 1..Len(entries) : entries[k].outcome = "skipped"
     /\ Len(mapping) <= 1
     /\ pc /= "crashed"
     /\ \A n \in DOMAIN fs0 : n \in DOMAIN fs /\ fs[n] = fs0[n]
     /\ DOMAIN fs \ OwnFiles = DOMAIN fs0 \ OwnFiles

\* C3 witness: a second apply run has finished over candidates that the
\* first apply run renamed, all of them skipped
C3_Witness ==
  /\ run = 2 /\ prev.pc = "done" /\ prev.apply /\ apply /\ pc = "done"
  /\ Len(RenameEntries(prev.entries)) >= 2
  /\ Len(entries) >= 2
  /\ \A k \in 1..Len(entries) : entries[k].outcome = "skipped"

\* C4: the index values of the rename-decision entries of a run are start,
\* start+1, start+2, ... in processing order; a skipped entry consumes none
C4_IndexMonotonic ==
  LET r == RenameEntries(entries)
  IN  /\ \A k \in 1..Len(r) : r[k].index = start_index + (k - 1)
      /\ \A k \in 1..Len(r) : r[k].target =
             build_new_name(prefix, start_index + (k - 1), Lower(Suffix(r[k].old)))
      /\ pc /= "start" => current_index = start_index + Len(r)

\* C4 witness: a skipped entry came first, and the two rename-decision
\* entries after it got start and start+1
C4_Witness ==
  /\ Len(entries) >= 3
  /\ entries[1].decision = "skip"
  /\ entries[2].decision = "rename" /\ entries[2].index = start_index
  /\ entries[3].decision = "rename" /\ entries[3].index = start_index + 1

\* C5: the target names of the entries applied or previewed in one run are
\* pairwise distinct
C5_TargetsPairwiseDistinct ==
  \A j, k \in 1..Len(entries) :
     (/\ j < k
      /\ entries[j].outcome \in {"applied", "previewed"}
      /\ entries[k].outcome \in {"applied", "previewed"})
     => entries[j].target /= entries[k].target

\* C5 witness: two entries with the same extension were applied, the second
\* with an index of four digits
C5_Witness ==
  /\ Len(entries) >= 2
  /\ entries[1].outcome = "applied" /\ entries[2].outcome = "applied"
  /\ Suffix(entries[1].target) = Suffix(entries[2].target)
  /\ entries[2].index = 1000

\* C6 as stated: a preview run renames nothing, the set of file names in the
\* target directory stays what it was when the run started, and every
\* rename-decision entry is recorded as previewed
C6_PreviewLeavesNameSet ==
  ~apply =>
     /\ DOMAIN fs = DOMAIN fs0
     /\ \A k \in 1..Len(entries) :
           entries[k].decision = "rename" => entries[k].outcome = "previewed"

\* C6 amended: a preview run renames nothing: every entry of the directory
\* keeps its name and content, the only names that can appear are the run's
\* own LOG_FILE and MAPPING_FILE (and only when the target directory is the
\* working directory), and every rename-decision entry is previewed
C6_PreviewRenamesNothing ==
  ~apply =>
     /\ \A n \in DOMAIN fs0 : n \in DOMAIN fs /\ fs[n] = fs0[n]
     /\ DOMAIN fs \ DOMAIN fs0 \subseteq OwnFiles
     /\ ~cwdIsInput => DOMAIN fs = DOMAIN fs0
     /\ \A k \in 1..Len(entries) :
           entries[k].decision = "rename" => entries[k].outcome = "previewed"

\* C6 witness: a preview run over two candidates has finished in the working
\* directory, where it left its log file
C6_Witness ==
  /\ ~apply /\ pc = "done" /\ cwdIsInput
  /\ Len(RenameEntries(entries)) >= 2
  /\ LOG_FILE \in DOMAIN fs \ DOMAIN fs0

\* the rows the mapping file must hold for the candidates 1..n
RECURSIVE RowsFor(_)
RowsFor(n) ==
  IF n = 0 THEN <<>>
  ELSE LET rest == RowsFor(n - 1)
           k    == start_index + Len(rest)
       IN  IF is_already_renamed(audio_files[n], prefix) THEN rest
           ELSE Append(rest, <<audio_files[n],
                   build_new_name(prefix, k, Lower(Suffix(audio_files[n])))>>)

\* the number of candidates whose iteration has begun when the run has ended
Attempted == IF pc = "crashed" THEN i ELSE i - 1

\* C7: when a run that entered the loop has ended, the mapping file holds the
\* header and then one row per rename-decision entry, a failed one included,
\* in processing order, and no row for a skipped entry
C7_MappingComplete ==
  (pc \in {"done", "crashed"} /\ audio_files /= <<>>) =>
     mapping = <<HeaderRow>> \o RowsFor(Attempted)

\* C8: when input_dir does not exist or is not a directory, the scan fails
\* with the directory-not-found error, rename_files reports it and returns,
\* and nothing is renamed and no mapping row is written
C8_BadDirectoryIsCleanFatal ==
  (pathKind /= "dir" /\ pc /= "start") =>
     /\ pc = "done"
     /\ exc = "FileNotFoundError"
     /\ \E k \in 1..Len(logrecs) : logrecs[k].tag = "NOTFOUND"
     /\ mapping = <<>>
     /\ fs = fs0

\* the state of the candidate at position k of the run
EntryState(k) ==
  IF k <= Len(entries) THEN entries[k].outcome ELSE "discovered"

\* C9: when a run has ended, every discovered candidate is in exactly one of
\* the terminal states skipped, previewed, applied, failed
C9_EveryEntryTerminal ==
  pc \in {"done", "crashed"} =>
     \A k \in 1..Len(audio_files) :
        EntryState(k) \in {"skipped", "previewed", "applied", "failed"}

\* has the last Len(e) characters equal to e when lower-cased, after a stem
EndsWithNoCase(n, e) ==
  Len(n) > Len(e) /\ Lower(SubSeq(n, Len(n) - Len(e) + 1, Len(n))) = e

\* a before b in code point order, compared from the first character on
RECURSIVE CodePointBefore(_, _)
CodePointBefore(a, b) ==
  IF b = <<>> THEN FALSE
  ELSE IF a = <<>> THEN TRUE
  ELSE IF Ord[Head(a)] /= Ord[Head(b)] THEN Ord[Head(a)] < Ord[Head(b)]
  ELSE CodePointBefore(Tail(a), Tail(b))

\* the regular files of directory d with a recognized extension
RecognizedFiles(d) ==
  {n \in DOMAIN d : d[n].kind = "file" /\ \E e \in AUDIO_EXTENSIONS : EndsWithNoCase(n, e)}

\* C10: the list the scan returned holds exactly the regular files of the
\* directory whose extension is, case-insensitively, one of the recognized
\* ones, each once, in ascending code point order of the names
C10_SelectorResult ==
  /\ (pc = "loop" \/ audio_files /= <<>>) =>
        /\ {audio_files[k] : k \in 1..Len(audio_files)} = RecognizedFiles(fs0)
        /\ \A j, k \in 1..Len(audio_files) :
              j < k => CodePointBefore(audio_files[j], audio_files[k])
  /\ (pathKind = "dir" /\ pc = "done" /\ audio_files = <<>>) =>
        RecognizedFiles(fs0) = {}

\* C10 witness: the scan of a directory holding B.WAV, a.wav and a
\* sub-directory named like an audio file returned B.WAV, then a.wav
C10_Witness ==
  /\ pc = "loop"
  /\ audio_files = <<N_B_WAV, N_a_wav>>
  /\ N_s_002_wav \in DOMAIN fs0

\* the number a sequence of decimal digits denotes
RECURSIVE DecimalValue(_)
DecimalValue(d) ==
  IF d = <<>> THEN 0
  ELSE DecimalValue(SubSeq(d, 1, Len(d) - 1)) * 10 + (Ord[d[Len(d)]] - 48)

\* d is the number n written in decimal and zero-padded to 3 digits
IsPadded3(d, n) ==
  /\ Len(d) >= 3
  /\ \A k \in 1..Len(d) : Ord[d[k]] >= 48 /\ Ord[d[k]] <= 57
  /\ Len(d) > 3 => d[1] /= "0"
  /\ DecimalValue(d) = n

\* name is pre, "_", the number n zero-padded to 3 digits, then ext
IsCanonicalName(name, pre, n, ext) ==
  /\ Len(name) >= Len(pre) + 1 + 3 + Len(ext)
  /\ \A k \in 1..Len(pre) : name[k] = pre[k]
  /\ name[Len(pre) + 1] = "_"
  /\ IsPadded3(SubSeq(name, Len(pre) + 2, Len(name) - Len(ext)), n)
  /\ SubSeq(name, Len(name) - Len(ext) + 1, Len(name)) = ext

\* C11: the k-th rename-decision entry of a run (k from 0) has the target
\* prefix, "_", start index + k zero-padded to 3 digits, and the candidate's
\* extension in lower case; a directory {a.wav, b.mp3, notes.txt} under
\* prefix s and start 1 gives a.wav -> s_001.wav, b.mp3 -> s_002.mp3 and
\* exactly 2 mapping rows
C11_TargetNameDerivation ==
  /\ LET r == RenameEntries(entries)
     IN  \A k \in 1..Len(r) :
            \E e \in AUDIO_EXTENSIONS :
               /\ EndsWithNoCase(r[k].old, e)
               /\ IsCanonicalName(r[k].target, prefix, start_index + (k - 1), e)
  /\ (/\ DOMAIN fs0 = {N_a_wav, N_b_mp3, N_notes_txt}
      /\ prefix = <<"s">> /\ start_index = 1 /\ pc = "done")
     => mapping = <<HeaderRow,
                    <<N_a_wav, N_s_001_wav>>,
                    <<N_b_mp3, <<"s", "_", "0", "0", "2", ".", "m", "p", "3">> >> >>

\* C11 witness: the directory {a.wav, b.mp3, notes.txt} has been renamed
\* under prefix s from index 1, and notes.txt is where it was
C11_Witness ==
  /\ DOMAIN fs0 = {N_a_wav, N_b_mp3, N_notes_txt}
  /\ prefix = <<"s">> /\ start_index = 1 /\ apply /\ pc = "done"
  /\ Len(mapping) = 3
  /\ N_s_001_wav \in DOMAIN fs /\ N_notes_txt \in DOMAIN fs
  /\ N_a_wav \notin DOMAIN fs

\* name n begins with pre and then an underscore
NamedUnder(n, pre) ==
  /\ Len(n) > Len(pre)
  /\ \A j \in 1..Len(pre) : n[j] = pre[j]
  /\ n[Len(pre) + 1] = "_"

\* directory d holds no file to rename: no candidate, or only candidates
\* already named under the prefix
NoEligible(d) == \A n \in RecognizedFiles(d) : NamedUnder(n, prefix)

\* the run renamed nothing
NothingRenamed ==
  /\ \A n \in DOMAIN fs0 : n \in DOMAIN fs /\ fs[n] = fs0[n]
  /\ \A k \in 1..Len(entries) : entries[k].outcome = "skipped"

\* C12 as stated: a run over a directory with no eligible file completes
\* successfully, renames nothing, and its mapping table holds the header and
\* no rename row
C12_NoEligibleHeaderOnly ==
  (pathKind = "dir" /\ NoEligible(fs0)) =>
     /\ pc /= "crashed"
     /\ NothingRenamed
     /\ pc = "done" => mapping = <<HeaderRow>>

\* C12 amended: such a run completes successfully, renames nothing and writes
\* no rename row; with only already-named candidates the mapping table holds
\* the header alone, with no candidate at all the run returns before it opens
\* the mapping file and writes nothing to it, not even the header
C12_NoEligibleNoRows ==
  (pathKind = "dir" /\ NoEligible(fs0)) =>
     /\ pc /= "crashed"
     /\ NothingRenamed
     /\ pc = "loop" => mapping = <<HeaderRow>>
     /\ pc = "done" =>
          mapping = IF RecognizedFiles(fs0) = {} THEN <<>> ELSE <<HeaderRow>>

\* C12 witness: an apply run over two already-named candidates and a text
\* file has completed with the header as its only mapping row
C12_Witness ==
  /\ pathKind = "dir" /\ apply /\ pc = "done"
  /\ N_notes_txt \in DOMAIN fs0
  /\ Len(entries) = 2
  /\ NoEligible(fs0)
  /\ mapping = <<HeaderRow>>

\* the log message that records an entry
LogRecOf(e) ==
  LogRec(CASE e.outcome = "skipped"   -> "SKIPPED"
           [] e.outcome = "previewed" -> "DRYRUN"
           [] e.outcome = "applied"   -> "RENAMED"
           [] OTHER                   -> "FAILED",
         e.old, e.target)

\* the run got past the scan with at least one candidate
LoopEntered == pc = "loop" \/ audio_files /= <<>>

\* the part of C13 about the entries that were skipped, previewed or renamed:
\* at every moment of the loop the log holds the Found message and then one
\* record per such entry, in processing order, and a RENAMED record stands
\* only for a rename that has been carried out
LoggedInOrder ==
  LoopEntered =>
     /\ logrecs[1].tag = "FOUND"
     /\ Len(logrecs) = 1 + Len(entries) + (IF pc = "done" THEN 1 ELSE 0)
     /\ pc = "loop" => Len(entries) = i - 1
     /\ pc = "done" => logrecs[Len(logrecs)].tag = "COMPLETED"
     /\ \A k \in 1..Len(entries) :
           /\ entries[k].old = audio_files[k]
           /\ logrecs[k + 1] = LogRecOf(entries[k])
           /\ logrecs[k + 1].tag = "RENAMED" =>
                 /\ logrecs[k + 1].new \in DOMAIN fs
                 /\ logrecs[k + 1].old \notin DOMAIN fs
                 /\ fs[logrecs[k + 1].new] = fs0[logrecs[k + 1].old]

\* C13: each entry's decision (skipped, dry-run, renamed, failed) is appended
\* to the log when the entry is processed, before the next candidate is
\* examined, in processing order, a RENAMED record only after its rename
\* succeeded; so when a rename has failed, the log holds the failed record of
\* that entry after the records of the entries before it
C13_LogPerEntryInOrder ==
  /\ LoggedInOrder
  /\ (LoopEntered /\ pc = "crashed") =>
        /\ Len(logrecs) >= 1 + i
        /\ logrecs[1 + i].tag = "FAILED"
        /\ logrecs[1 + i].old = audio_files[i]

\* the (old name, target name) pairs of a run record, in processing order
Pairs(es) ==
  LET r == RenameEntries(es) IN [k \in 1..Len(r) |-> <<r[k].old, r[k].target>>]

\* the names a run record marks skip-already-named
SkippedNames(es) ==
  {es[k].old : k \in {j \in 1..Len(es) : es[j].decision = "skip"}}

\* this run and the one before it both returned, in the modes given
BothDone(modeBefore, modeNow) ==
  /\ run >= 2
  /\ prev.pc = "done" /\ prev.apply = modeBefore
  /\ pc = "done" /\ apply = modeNow

C16_NoFileDestroyed ==
  apply =>
     /\ Cardinality(DOMAIN fs \ OwnFiles) = Cardinality(DOMAIN fs0 \ OwnFiles)
     /\ \A n \in DOMAIN fs0 :
           \E m \in DOMAIN fs :
              /\ fs[m] = fs0[n]
              /\ \/ m = n
                 \/ \E k \in 1..Len(entries) :
                       entries[k].old = n /\ entries[k].target = m

\* C17: a preview run and the apply run after it, over the same directory
\* with the same prefix and start index and with no rename error, write the
\* same mapping rows in the same order and skip the same files
C17_PreviewPredictsApply ==
  BothDone(FALSE, TRUE) =>
     /\ mapping = prev.mapping
     /\ Pairs(entries) = Pairs(prev.entries)
     /\ SkippedNames(entries) = SkippedNames(prev.entries)

\* C17 witness: an apply run that renamed two files and skipped one has
\* ended after a preview run over the same directory
C17_Witness ==
  /\ BothDone(FALSE, TRUE)
  /\ Len(Pairs(entries)) = 2
  /\ SkippedNames(entries) /= {}
  /\ \E k \in 1..Len(entries) : entries[k].outcome = "applied"

(* ====== the config-driven renamer (rename_audio_files.py, config.py) ==== *)
(* It has no already-renamed check, no log file and no mapping file; PREFIX, *)
(* START_INDEX and DRY_RUN of config.py are the variables prefix,            *)
(* start_index and ~apply.                                                   *)

\* get_audio_files(directory) of rename_audio_files.py: it does not test
\* whether the directory exists
cfg_get_audio_files(kind, dir) ==
  IF kind = "missing" THEN [err |-> "FileNotFoundError", files |-> <<>>]
  ELSE IF kind = "file" THEN [err |-> "NotADirectoryError", files |-> <<>>]
  ELSE LET files == {n \in DOMAIN dir : dir[n].kind = "file"}
           audio == {n \in files : Lower(Suffix(n)) \in AUDIO_EXTENSIONS}
       IN  [err |-> "none", files |-> Sorted(audio)]

\* build_new_name(index, extension) of rename_audio_files.py
cfg_build_new_name(index, extension) ==
  prefix \o <<"_">> \o Format03d(index) \o extension

\* the target name computed at lines 75-76 for the file at position k
CfgNewName(k) == cfg_build_new_name(current_index, Lower(Suffix(audio_files[k])))

CfgInit ==
  /\ pathKind \in {"missing", "file", "dir"}
  /\ cwdIsInput = FALSE
  /\ fs \in (IF pathKind = "dir" THEN Dirs ELSE {NoFiles})
  /\ prefix \in Prefixes
  /\ start_index \in StartIndices
  /\ apply \in BOOLEAN
  /\ pc = "start"
  /\ exc = "none"
  /\ audio_files = <<>>
  /\ i = 1
  /\ current_index = start_index
  /\ mapping = <<>>
  /\ logrecs = <<>>
  /\ entries = <<>>
  /\ fs0 = fs
  /\ run = 1
  /\ prev = NoPrev

\* rename_files, lines 51-53: INPUT_DIR does not exist
CfgDirMissing ==
  /\ pc = "start"
  /\ pathKind = "missing"
  /\ pc' = "done"
  /\ UNCHANGED <<pathKind, cwdIsInput, fs, prefix, start_index, apply, exc,
                 audio_files, i, current_index, mapping, logrecs, entries, fs0,
                 run, prev>>

\* rename_files, lines 51-55: INPUT_DIR exists and the scan raises
CfgScanRaises ==
  /\ pc = "start"
  /\ pathKind /= "missing"
  /\ cfg_get_audio_files(pathKind, fs).err /= "none"
  /\ exc' = cfg_get_audio_files(pathKind, fs).err
  /\ pc' = "crashed"
  /\ UNCHANGED <<pathKind, cwdIsInput, fs, prefix, start_index, apply,
                 audio_files, i, current_index, mapping, logrecs, entries, fs0,
                 run, prev>>

\* rename_files, lines 51-59: the scan finds no audio file
CfgNoAudioFiles ==
  /\ pc = "start"
  /\ pathKind /= "missing"
  /\ cfg_get_audio_files(pathKind, fs).err = "none"
  /\ cfg_get_audio_files(pathKind, fs).files = <<>>
  /\ pc' = "done"
  /\ UNCHANGED <<pathKind, cwdIsInput, fs, prefix, start_index, apply, exc,
                 audio_files, i, current_index, mapping, logrecs, entries, fs0,
                 run, prev>>

\* rename_files, lines 51-71: the scan, the listing, the running index
CfgBeginLoop ==
  /\ pc = "start"
  /\ pathKind /= "missing"
  /\ cfg_get_audio_files(pathKind, fs).err = "none"
  /\ cfg_get_audio_files(pathKind, fs).files /= <<>>
  /\ audio_files' = cfg_get_audio_files(pathKind, fs).files
  /\ current_index' = start_index
  /\ i' = 1
  /\ pc' = "loop"
  /\ UNCHANGED <<pathKind, cwdIsInput, fs, prefix, start_index, apply, exc,
                 mapping, logrecs, entries, fs0, run, prev>>

\* one iteration, lines 73-88 with DRY_RUN true
CfgPreviewEntry ==
  /\ pc = "loop"
  /\ i <= Len(audio_files)
  /\ ~apply
  /\ entries' = Append(entries,
         Entry(audio_files[i], "rename", CfgNewName(i), current_index, "previewed"))
  /\ current_index' = current_index + 1
  /\ i' = i + 1
  /\ UNCHANGED <<pathKind, cwdIsInput, fs, prefix, start_index, apply, pc, exc,
                 audio_files, mapping, logrecs, fs0, run, prev>>

\* one iteration, lines 73-88 with DRY_RUN false and os.rename succeeding
CfgApplyEntry ==
  /\ pc = "loop"
  /\ i <= Len(audio_files)
  /\ apply
  /\ OsRenameError(fs, audio_files[i], CfgNewName(i)) = "none"
  /\ fs' = OsRename(fs, audio_files[i], CfgNewName(i))
  /\ entries' = Append(entries,
         Entry(audio_files[i], "rename", CfgNewName(i), current_index, "applied"))
  /\ current_index' = current_index + 1
  /\ i' = i + 1
  /\ UNCHANGED <<pathKind, cwdIsInput, prefix, start_index, apply, pc, exc,
                 audio_files, mapping, logrecs, fs0, run, prev>>

\* one iteration, lines 73-86 with DRY_RUN false and os.rename raising
CfgApplyEntryRaises ==
  /\ pc = "loop"
  /\ i <= Len(audio_files)
  /\ apply
  /\ \E e \in {OsRenameError(fs, audio_files[i], CfgNewName(i)), "PermissionError"} :
        /\ e /= "none"
        /\ exc' = e
  /\ pc' = "crashed"
  /\ UNCHANGED <<pathKind, cwdIsInput, fs, prefix, start_index, apply,
                 audio_files, i, current_index, mapping, logrecs, entries, fs0,
                 run, prev>>

\* line 90: the loop is over
CfgFinish ==
  /\ pc = "loop"
  /\ i > Len(audio_files)
  /\ pc' = "done"
  /\ UNCHANGED <<pathKind, cwdIsInput, fs, prefix, start_index, apply, exc,
                 audio_files, i, current_index, mapping, logrecs, entries, fs0,
                 run, prev>>

\* lines 93-94: the script is run again on the directory as the last run left
\* it, with the same PREFIX and START_INDEX and either value of DRY_RUN
CfgRerun ==
  /\ pc \in {"done", "crashed"}
  /\ run < MaxRuns
  /\ apply' \in BOOLEAN
  /\ prev' = [pc |-> pc, apply |-> apply, entries |-> entries,
              mapping |-> mapping, fs0 |-> fs0]
  /\ run' = run + 1
  /\ pc' = "start"
  /\ exc' = "none"
  /\ audio_files' = <<>>
  /\ i' = 1
  /\ current_index' = start_index
  /\ entries' = <<>>
  /\ fs0' = fs
  /\ UNCHANGED <<pathKind, cwdIsInput, fs, prefix, start_index, mapping, logrecs>>

CfgNext ==
  \/ CfgDirMissing
  \/ CfgScanRaises
  \/ CfgNoAudioFiles
  \/ CfgBeginLoop
  \/ CfgPreviewEntry
  \/ CfgApplyEntry
  \/ CfgApplyEntryRaises
  \/ CfgFinish
  \/ CfgRerun

SpecCfg == CfgInit /\ [][CfgNext]_vars

\* C18: an apply run (DRY_RUN False) of the config-driven renamer leaves as
\* many audio files as it found, each candidate under its own computed
\* target name: no rename of the loop overwrites a file that a later
\* iteration still has to rename or that was renamed earlier in the run
C18_CfgApplyKeepsEveryFile ==
  (apply /\ pc = "done") =>
     /\ Cardinality({n \in DOMAIN fs : fs[n].kind = "file" /\ IsAudioName(n)})
           = Len(audio_files)
     /\ \A k \in 1..Len(entries) :
           /\ entries[k].target \in DOMAIN fs
           /\ fs[entries[k].target] = fs0[entries[k].old]

====
